---- MODULE Spec2Model ----
(***************************************************************************)
(* Model of src/app.py: the POST /generate handler of the JASCO music      *)
(* generation service.  One server process, one asyncio event loop; every  *)
(* request is one invocation of the coroutine `generate`.  The state is    *)
(* the process-wide file_counter, the files of output/, the temporary      *)
(* files on disk, and for every request its position in the handler and    *)
(* the handler's local variables.                                          *)
(*                                                                         *)
(* Times are whole seconds (10 stands for 10.0).  Floats are records so    *)
(* that NaN, which Python's float() produces from the JSON string "nan",   *)
(* is a value of its own.                                                  *)
(***************************************************************************)
EXTENDS Integers, Sequences, FiniteSets, TLC

\* ------------------------------------------------------------------ bounds
\* Stands for the 999 of lines 132 and 165: the size of the filename space.
MaxFile == 3
\* Number of requests the server receives in one run.
MaxRequests == 3
\* Number of requests being handled at once.
MaxInFlight == 2

\* --------------------------------------------------------------- constants
\* Line 60: the generation horizon, in seconds.
HORIZON == 10

Req == 1..MaxRequests
FileNo == 1..MaxFile

VARIABLES
    file_counter,       \* line 41: global file_counter
    files,              \* the n for which output/<n>.wav exists
    temps,              \* temporary files of the requests being handled:
                        \* <<request, "audio" | "wav">>
    orphans,            \* number of temporary files left by finished requests
    running,            \* the request whose coroutine holds the event loop, 0: none
    pc,                 \* each request's position in the handler
    req,                \* each request's form fields
    chord_progression,  \* the handler's local chord_progression
    entry,              \* file_counter when the request entered the filename search
    advances,           \* iterations of the search loop the request has made
                        \* (counted up to MaxFile: the loop may never end)
    call,               \* the arguments of the request's generate_music call
    resp,               \* the response delivered for the request
    last,               \* history: the n of the last output/<n>.wav written, 0: none
    last_failed         \* history: the n selected by the last request whose model
                        \* call or write failed, while the files of output/ are
                        \* as it left them; 0: none

prog == <<file_counter, files, temps, orphans, running, pc, req, chord_progression,
          entry, advances, call, resp>>
hist == <<last, last_failed>>
vars == <<prog, hist>>

\* ------------------------------------------------------------------ floats
Float(n) == [nan |-> FALSE, v |-> n]
NaN == [nan |-> TRUE, v |-> 0]

\* Python's a > b on floats: every comparison with NaN is False.
Gt(a, b) == ~a.nan /\ ~b.nan /\ a.v > b.v

\* -------------------------------------------------------------------- JSON
JNum(n) == [t |-> "num", n |-> n, s |-> "", l |-> <<>>]
JStr(s) == [t |-> "str", n |-> 0, s |-> s, l |-> <<>>]
JList(l) == [t |-> "list", n |-> 0, s |-> "", l |-> l]
JNone == [t |-> "none", n |-> 0, s |-> "", l |-> <<>>]

\* The chords payloads the requests carry.
T_NotJson == "Am7,0;D7,5"
T_Ok == "[[\"C\",0],[\"G\",10]]"
T_Over == "[[\"C\",0.0],[\"G\",11.0]]"
T_Neg == "[[\"C\",-1]]"
T_NanStr == "[[\"C\",\"nan\"]]"
T_NotList == "5"
T_NotPair == "[[\"C\",0,1]]"
T_NonNum == "[[\"C\",\"x\"]]"

ChordTexts == {T_NotJson, T_Ok, T_Over, T_Neg, T_NanStr, T_NotList, T_NotPair,
               T_NonNum}

\* The chords form field: absent (None) or a string.
NoChords == [given |-> FALSE, text |-> ""]
Chords(text) == [given |-> TRUE, text |-> text]
ChordsFields == {NoChords} \cup {Chords(t) : t \in ChordTexts}

\* json.loads on the payloads above: the parsed value, or JSONDecodeError.
json_loads(text) ==
    CASE text = T_Ok ->
           [ok |-> TRUE, val |-> JList(<<JList(<<JStr("C"), JNum(0)>>),
                                         JList(<<JStr("G"), JNum(10)>>)>>)]
      [] text = T_Over ->
           [ok |-> TRUE, val |-> JList(<<JList(<<JStr("C"), JNum(0)>>),
                                         JList(<<JStr("G"), JNum(11)>>)>>)]
      [] text = T_Neg ->
           [ok |-> TRUE, val |-> JList(<<JList(<<JStr("C"), JNum(-1)>>)>>)]
      [] text = T_NanStr ->
           [ok |-> TRUE, val |-> JList(<<JList(<<JStr("C"), JStr("nan")>>)>>)]
      [] text = T_NotList ->
           [ok |-> TRUE, val |-> JNum(5)]
      [] text = T_NotPair ->
           [ok |-> TRUE, val |-> JList(<<JList(<<JStr("C"), JNum(0), JNum(1)>>)>>)]
      [] text = T_NonNum ->
           [ok |-> TRUE, val |-> JList(<<JList(<<JStr("C"), JStr("x")>>)>>)]
      [] OTHER -> [ok |-> FALSE, val |-> JNone]

\* -------------------------------------------------------------- exceptions
NoExc == [type |-> "none", status |-> 0, cause |-> ""]
HTTPException(status, cause) ==
    [type |-> "HTTPException", status |-> status, cause |-> cause]
\* An exception raised while the chords field is processed.
PyError(type) == [type |-> type, status |-> 0, cause |-> "chords"]
\* An exception raised by a library call: the decoder, the resampler, the
\* model, the writer.
RuntimeError(cause) == [type |-> "RuntimeError", status |-> 0, cause |-> cause]

\* float(x) of a parsed JSON value.
py_float(j) ==
    CASE j.t = "num" -> [exc |-> NoExc, f |-> Float(j.n)]
      [] j.t = "str" /\ j.s = "nan" -> [exc |-> NoExc, f |-> NaN]
      [] j.t = "str" -> [exc |-> PyError("ValueError"), f |-> NaN]
      [] OTHER -> [exc |-> PyError("TypeError"), f |-> NaN]

\* str(x) of a parsed JSON value (the chord symbol).
py_str(j) == IF j.t = "str" THEN j.s ELSE ToString(j.n)

\* The tuple unpacking `_, time in chord_list` of one element.
Unpack(e) ==
    CASE e.t = "list" /\ Len(e.l) = 2 -> NoExc
      [] e.t = "list" -> PyError("ValueError")
      [] OTHER -> PyError("TypeError")

\* Line 60: the test of one chord time against the horizon.
OverHorizon_never(f) == FALSE
OverHorizon(f) == Gt(f, Float(HORIZON))

\* Line 60: any(float(time) > 10.0 for _, time in chord_list), evaluated
\* element by element from index i: the first element that fails to unpack
\* or to convert raises, the first time over the horizon answers True.
RECURSIVE AnyOver(_, _)
AnyOver(l, i) ==
    IF i > Len(l) THEN [exc |-> NoExc, any |-> FALSE]
    ELSE IF Unpack(l[i]) # NoExc THEN [exc |-> Unpack(l[i]), any |-> FALSE]
    ELSE IF py_float(l[i].l[2]).exc # NoExc
         THEN [exc |-> py_float(l[i].l[2]).exc, any |-> FALSE]
    ELSE IF OverHorizon(py_float(l[i].l[2]).f)
         THEN [exc |-> NoExc, any |-> TRUE]
    ELSE AnyOver(l, i + 1)

\* Line 65: [(str(chord), float(time)) for chord, time in chord_list].
Convert(l) == [i \in 1..Len(l) |-> <<py_str(l[i].l[1]), py_float(l[i].l[2]).f>>]

\* Line 31.
DEFAULT_CHORDS == <<<<"Am7", Float(0)>>, <<"D7", Float(5)>>, <<"G", Float(8)>>>>

\* Lines 66-68: the handler of json.JSONDecodeError.
OnDecodeError_raise == [exc |-> PyError("JSONDecodeError"), progression |-> <<>>]
OnDecodeError == [exc |-> NoExc, progression |-> DEFAULT_CHORDS]

\* Lines 56-71: the chords field to the chord progression, or the exception
\* that leaves the block.  None and "" are falsy (line 56); only
\* JSONDecodeError is caught (line 66).
ProcessChords(chords) ==
    IF ~chords.given \/ chords.text = ""
    THEN [exc |-> NoExc, progression |-> DEFAULT_CHORDS]
    ELSE LET parsed == json_loads(chords.text) IN
         IF ~parsed.ok THEN OnDecodeError
         ELSE IF parsed.val.t # "list"
              THEN [exc |-> PyError("TypeError"), progression |-> <<>>]
         ELSE LET over == AnyOver(parsed.val.l, 1) IN
              IF over.exc # NoExc THEN [exc |-> over.exc, progression |-> <<>>]
              ELSE IF over.any
                   THEN [exc |-> HTTPException(400, "horizon"), progression |-> <<>>]
              ELSE [exc |-> NoExc, progression |-> Convert(parsed.val.l)]

\* Lines 123-125: the drums block's except clause wraps every exception,
\* the HTTPException of line 99 included, in an HTTPException 500.
InnerExcept(exc) == HTTPException(500, exc.cause)

\* Lines 173-175: the outer except clause answers every exception that
\* leaves the body, HTTPException included, with status 500 and str(e).
OuterExcept(exc) == [status |-> 500, detail |-> exc.cause, file |-> 0]

\* Lines 167-171: the FileResponse of output/<n>.wav.
FileResponse(n) == [status |-> 200, detail |-> "audio/wav", file |-> n]

NoReq == [chords |-> NoChords, drums |-> FALSE]
NoCall == [made |-> FALSE, chords |-> <<>>, drums |-> FALSE]
NoResp == [status |-> 0, detail |-> "", file |-> 0]

\* Lines 132 and 165: (file_counter % 999) + 1.
NextCounter_nowrap(c) == c + 1
NextCounter(c) == (c % MaxFile) + 1

\* Line 131: os.path.exists(f"output/{n}.wav").
path_exists_never(n) == FALSE
path_exists(n) == n \in files

\* Line 44: generate is a coroutine of the server's event loop.  The loop
\* starts or resumes a coroutine only when no coroutine is running, and the
\* running coroutine keeps the loop until its next await or its end.
OnLoop_threaded(r) == TRUE
OnLoop(r) == IF pc[r] \in {"new", "await"} THEN running = 0 ELSE running = r

InFlight == {r \in Req : pc[r] \notin {"new", "gone"}}

Init ==
    /\ file_counter = 1
    /\ files \in SUBSET FileNo
    /\ temps = {}
    /\ orphans = 0
    /\ running = 0
    /\ pc = [r \in Req |-> "new"]
    /\ req = [r \in Req |-> NoReq]
    /\ chord_progression = [r \in Req |-> <<>>]
    /\ entry = [r \in Req |-> 0]
    /\ advances = [r \in Req |-> 0]
    /\ call = [r \in Req |-> NoCall]
    /\ resp = [r \in Req |-> NoResp]
    /\ last = 0
    /\ last_failed = 0

\* The handler is left by an exception that reaches line 173: the response
\* is the outer except clause's, nothing else changes.  The coroutine ends
\* without another await: the loop is released when the response is sent.
Raise_increment(r, exc) ==
    /\ pc' = [pc EXCEPT ![r] = "done"]
    /\ resp' = [resp EXCEPT ![r] = OuterExcept(exc)]
    /\ file_counter' = NextCounter(file_counter)
    /\ UNCHANGED <<files, temps, orphans, running, req, chord_progression, entry,
                   advances>>
Raise(r, exc) ==
    /\ pc' = [pc EXCEPT ![r] = "done"]
    /\ resp' = [resp EXCEPT ![r] = OuterExcept(exc)]
    /\ UNCHANGED <<file_counter, files, temps, orphans, running, req,
                   chord_progression, entry, advances>>

\* Lines 43-53: the server calls generate with the request's form fields;
\* os.makedirs creates output/ if it is missing.
Dispatch_reserve(r) ==
    /\ OnLoop(r)
    /\ pc[r] = "new"
    /\ \A q \in Req : q < r => pc[q] # "new"
    /\ Cardinality(InFlight) < MaxInFlight
    /\ \E c \in ChordsFields, d \in BOOLEAN :
          req' = [req EXCEPT ![r] = [chords |-> c, drums |-> d]]
    /\ pc' = [pc EXCEPT ![r] = "chords"]
    /\ running' = r
    /\ file_counter' = NextCounter(file_counter)
    /\ UNCHANGED <<files, temps, orphans, chord_progression, entry, advances,
                   call, resp>>
Dispatch(r) ==
    /\ OnLoop(r)
    /\ pc[r] = "new"
    /\ \A q \in Req : q < r => pc[q] # "new"
    /\ Cardinality(InFlight) < MaxInFlight
    /\ \E c \in ChordsFields, d \in BOOLEAN :
          req' = [req EXCEPT ![r] = [chords |-> c, drums |-> d]]
    /\ pc' = [pc EXCEPT ![r] = "chords"]
    /\ running' = r
    /\ UNCHANGED <<file_counter, files, temps, orphans, chord_progression, entry,
                   advances, call, resp>>

\* Lines 56-71.
ChordsStep(r) ==
    /\ OnLoop(r)
    /\ pc[r] = "chords"
    /\ LET res == ProcessChords(req[r].chords) IN
       IF res.exc # NoExc THEN Raise(r, res.exc) /\ UNCHANGED call
       ELSE /\ chord_progression' = [chord_progression EXCEPT ![r] = res.progression]
            /\ pc' = [pc EXCEPT ![r] = "drums"]
            /\ UNCHANGED <<file_counter, files, temps, orphans, running, req, entry,
                           advances, call, resp>>

\* Lines 74-79 and 126-128: with a drums upload, the first temporary file is
\* created (delete=False) and the coroutine awaits drums.read(), releasing
\* the event loop; without one the handler goes on to the filename search.
DrumsStep(r) ==
    /\ OnLoop(r)
    /\ pc[r] = "drums"
    /\ IF req[r].drums
       THEN /\ temps' = temps \cup {<<r, "audio">>}
            /\ pc' = [pc EXCEPT ![r] = "await"]
            /\ running' = 0
            /\ UNCHANGED <<entry, advances>>
       ELSE /\ pc' = [pc EXCEPT ![r] = "search"]
            /\ entry' = [entry EXCEPT ![r] = file_counter]
            /\ advances' = [advances EXCEPT ![r] = 0]
            /\ UNCHANGED <<temps, running>>
    /\ UNCHANGED <<file_counter, files, orphans, req, chord_progression, call, resp>>

\* Lines 79-88: the read completes and the coroutine is resumed; the upload
\* is written out and the second temporary file is created (delete=False).
Resume(r) ==
    /\ OnLoop(r)
    /\ pc[r] = "await"
    /\ running' = r
    /\ temps' = temps \cup {<<r, "wav">>}
    /\ pc' = [pc EXCEPT ![r] = "convert"]
    /\ UNCHANGED <<file_counter, files, orphans, req, chord_progression, entry,
                   advances, call, resp>>

\* Lines 90-99: ffmpeg converts the upload, or fails with ffmpeg.Error, which
\* line 99 turns into HTTPException(500) and line 125 wraps again.
Ffmpeg(r) ==
    /\ OnLoop(r)
    /\ pc[r] = "convert"
    /\ \/ /\ pc' = [pc EXCEPT ![r] = "load"]
          /\ UNCHANGED <<file_counter, files, temps, orphans, running, req,
                         chord_progression, entry, advances, call, resp>>
       \/ Raise(r, InnerExcept(HTTPException(500, "ffmpeg"))) /\ UNCHANGED call

\* Line 102: torchaudio.load decodes the converted file, or raises.
Load(r) ==
    /\ OnLoop(r)
    /\ pc[r] = "load"
    /\ \/ /\ pc' = [pc EXCEPT ![r] = "resample"]
          /\ UNCHANGED <<file_counter, files, temps, orphans, running, req,
                         chord_progression, entry, advances, call, resp>>
       \/ Raise(r, InnerExcept(RuntimeError("load"))) /\ UNCHANGED call

\* Lines 106-116: mono downmix and resampling, or an exception of either.
Resample(r) ==
    /\ OnLoop(r)
    /\ pc[r] = "resample"
    /\ \/ /\ pc' = [pc EXCEPT ![r] = "unlink"]
          /\ UNCHANGED <<file_counter, files, temps, orphans, running, req,
                         chord_progression, entry, advances, call, resp>>
       \/ Raise(r, InnerExcept(RuntimeError("resample"))) /\ UNCHANGED call

\* Lines 118-120: both temporary files are unlinked, on this path only.
Unlink(r) ==
    /\ OnLoop(r)
    /\ pc[r] = "unlink"
    /\ temps' = temps \ {<<r, "audio">>, <<r, "wav">>}
    /\ pc' = [pc EXCEPT ![r] = "search"]
    /\ entry' = [entry EXCEPT ![r] = file_counter]
    /\ advances' = [advances EXCEPT ![r] = 0]
    /\ UNCHANGED <<file_counter, files, orphans, running, req, chord_progression,
                   call, resp>>

\* Lines 131-136: one test of the while condition; the loop body advances the
\* counter, a false condition selects file_counter.
SearchStep(r) ==
    /\ OnLoop(r)
    /\ pc[r] = "search"
    /\ IF path_exists(file_counter)
       THEN /\ file_counter' = NextCounter(file_counter)
            /\ advances' = [advances EXCEPT ![r] = IF @ < MaxFile THEN @ + 1 ELSE @]
            /\ UNCHANGED pc
       ELSE /\ pc' = [pc EXCEPT ![r] = "generate"]
            /\ UNCHANGED <<file_counter, advances>>
    /\ UNCHANGED <<files, temps, orphans, running, req, chord_progression, entry,
                   call, resp>>

\* Lines 139-153: the call of generate_music with the chord progression, and
\* with the drums when they were uploaded; it returns or raises.
Generate(r) ==
    /\ OnLoop(r)
    /\ pc[r] = "generate"
    /\ call' = [call EXCEPT ![r] = [made |-> TRUE, chords |-> chord_progression[r],
                                    drums |-> req[r].drums]]
    /\ \/ /\ pc' = [pc EXCEPT ![r] = "write"]
          /\ UNCHANGED <<file_counter, files, temps, orphans, running, req,
                         chord_progression, entry, advances, resp>>
       \/ Raise(r, RuntimeError("model"))

\* Lines 156-162: audio_write writes output/<file_counter>.wav, or raises
\* (audio_write removes a half-written file before it re-raises).
Write(r) ==
    /\ OnLoop(r)
    /\ pc[r] = "write"
    /\ \/ /\ files' = files \cup {file_counter}
          /\ pc' = [pc EXCEPT ![r] = "increment"]
          /\ UNCHANGED <<file_counter, temps, orphans, running, req,
                         chord_progression, entry, advances, call, resp>>
       \/ Raise(r, RuntimeError("write")) /\ UNCHANGED call

\* Lines 164-171: the counter moves past the file just written and the file
\* is returned.
Increment(r) ==
    /\ OnLoop(r)
    /\ pc[r] = "increment"
    /\ resp' = [resp EXCEPT ![r] = FileResponse(file_counter)]
    /\ file_counter' = NextCounter(file_counter)
    /\ pc' = [pc EXCEPT ![r] = "done"]
    /\ UNCHANGED <<files, temps, orphans, running, req, chord_progression, entry,
                   advances, call>>

\* The server sends the response the handler returned or raised; the
\* invocation's locals are gone and the event loop is free.  The temporary
\* files the handler left behind stay on disk.
Forget(r) ==
    /\ OnLoop(r)
    /\ pc[r] = "done"
    /\ running' = 0
    /\ pc' = [pc EXCEPT ![r] = "gone"]
    /\ req' = [req EXCEPT ![r] = NoReq]
    /\ chord_progression' = [chord_progression EXCEPT ![r] = <<>>]
    /\ entry' = [entry EXCEPT ![r] = 0]
    /\ advances' = [advances EXCEPT ![r] = 0]
    /\ call' = [call EXCEPT ![r] = NoCall]
    /\ resp' = [resp EXCEPT ![r] = NoResp]
    /\ temps' = {t \in temps : t[1] # r}
    /\ orphans' = orphans + Cardinality({t \in temps : t[1] = r})
    /\ UNCHANGED <<file_counter, files>>

\* The history variables: the filename of the last write (lines 156-162), and
\* the filename a failed model call or write had selected (lines 173-175),
\* forgotten when a file of output/ changes.
HistUpdate ==
    /\ last' = IF \E r \in Req : pc[r] = "write" /\ pc'[r] = "increment"
               THEN file_counter ELSE last
    /\ last_failed' =
         IF \E r \in Req : pc[r] \in {"generate", "write"} /\ pc'[r] = "done"
         THEN file_counter
         ELSE IF files' # files THEN 0
         ELSE last_failed

\* The server handles the requests concurrently: any coroutine the event
\* loop can run takes the next step.
Next ==
    \E r \in Req :
        \/ Dispatch(r) /\ UNCHANGED hist
        \/ ChordsStep(r) /\ UNCHANGED hist
        \/ DrumsStep(r) /\ UNCHANGED hist
        \/ Resume(r) /\ UNCHANGED hist
        \/ Ffmpeg(r) /\ UNCHANGED hist
        \/ Load(r) /\ UNCHANGED hist
        \/ Resample(r) /\ UNCHANGED hist
        \/ Unlink(r) /\ UNCHANGED hist
        \/ SearchStep(r) /\ UNCHANGED hist
        \/ Generate(r) /\ UNCHANGED hist
        \/ Write(r) /\ UNCHANGED hist
        \/ Increment(r) /\ UNCHANGED hist
        \/ Forget(r) /\ UNCHANGED hist

Spec == Init /\ [][Next]_vars

\* The requests are processed one after another: a request is dispatched
\* only when the one before it has been answered.
\* No other request is being handled.
Alone(r) == InFlight \subseteq {r}

SeqNext ==
    \E r \in Req :
        \/ Alone(r) /\ Dispatch(r) /\ HistUpdate
        \/ Alone(r) /\ ChordsStep(r) /\ HistUpdate
        \/ Alone(r) /\ DrumsStep(r) /\ HistUpdate
        \/ Alone(r) /\ Resume(r) /\ HistUpdate
        \/ Alone(r) /\ Ffmpeg(r) /\ HistUpdate
        \/ Alone(r) /\ Load(r) /\ HistUpdate
        \/ Alone(r) /\ Resample(r) /\ HistUpdate
        \/ Alone(r) /\ Unlink(r) /\ HistUpdate
        \/ Alone(r) /\ SearchStep(r) /\ HistUpdate
        \/ Alone(r) /\ Generate(r) /\ HistUpdate
        \/ Alone(r) /\ Write(r) /\ HistUpdate
        \/ Alone(r) /\ Increment(r) /\ HistUpdate
        \/ Alone(r) /\ Forget(r) /\ HistUpdate

SeqSpec == Init /\ [][SeqNext]_vars

\* Line 131 reads the directory as it is: between two requests a file of
\* output/ may have been removed from outside the server.
Cleanup ==
    /\ InFlight = {}
    /\ \E n \in files : files' = files \ {n}
    /\ last_failed' = 0
    /\ UNCHANGED <<file_counter, temps, orphans, running, pc, req, chord_progression,
                   entry, advances, call, resp, last>>

\* The search loop of lines 131-132 is synchronous code of the running
\* coroutine: it keeps taking steps.
SearchRuns == \E r \in Req : Alone(r) /\ SearchStep(r) /\ HistUpdate

\* Requests processed one after another, files removed between them, and the
\* search loop running on.
FairSeqSpec == Init /\ [][SeqNext \/ Cleanup]_vars /\ WF_vars(SearchRuns)

\* ------------------------------------------------------------------ claims
\* The chords fields of the cases the claims are about.
HorizonFields == {Chords(T_Over)}
NotJsonFields == {Chords(T_NotJson)}
IllShapedFields == {Chords(T_NotList), Chords(T_NotPair), Chords(T_NonNum)}

\* The handler has returned or raised and the response is known.
Answered(r) == pc[r] = "done"

\* C1 (as claimed): a request whose chords parse to a list of pairs with a
\* time over 10.0 is answered with status 400.
C1_Status400 ==
    \A r \in Req :
        Answered(r) /\ req[r].chords \in HorizonFields => resp[r].status = 400

\* C2: a request rejected for a chord time over 10.0 does no partial work.
\* It never gets past the chords block, makes no model call and owns no
\* temporary file; and no step of it (the event loop runs it before or after
\* the step) changes file_counter, the files of output/ or the temporary
\* files.
C2_NoPartialWork ==
    /\ [](\A r \in Req :
            req[r].chords \in HorizonFields =>
                /\ pc[r] \in {"chords", "done"}
                /\ ~call[r].made
                /\ \A t \in temps : t[1] # r)
    /\ [][\A r \in Req :
            req'[r].chords \in HorizonFields /\ (running = r \/ running' = r) =>
                UNCHANGED <<file_counter, files, temps, orphans>>]_vars

\* C2's case: a rejected request has been answered with an error while
\* another request is being handled.
C2_Witness ==
    \E r, q \in Req :
        /\ Answered(r) /\ req[r].chords \in HorizonFields
        /\ resp[r].status >= 400
        /\ pc[q] = "await"

\* C3: a chords payload that is not JSON is handled as if chords were omitted.
\* The chords block leaves the handler where it leaves it for an omitted
\* field (no exception, on to the drums block, the same progression, no
\* response yet); from there on the handler reads only that progression: the
\* model is called with DEFAULT_CHORDS and no error response is due to the
\* chords field.
C3_NotJsonAsOmitted ==
    /\ [](\A r \in Req :
            req[r].chords \in NotJsonFields =>
                /\ pc[r] # "chords" => chord_progression[r] = DEFAULT_CHORDS
                /\ call[r].made => call[r].chords = DEFAULT_CHORDS
                /\ Answered(r) => resp[r].detail \notin {"chords", "horizon"})
    /\ [][\A r \in Req :
            pc[r] = "chords" /\ pc'[r] # "chords" /\ req[r].chords \in NotJsonFields =>
                LET omitted == ProcessChords(NoChords) IN
                /\ omitted.exc = NoExc
                /\ pc'[r] = "drums"
                /\ chord_progression'[r] = omitted.progression
                /\ resp'[r] = NoResp
                /\ UNCHANGED <<file_counter, files, temps, orphans>>]_vars

\* C3's case: a request with a payload that is not JSON got its file.
C3_Witness ==
    \E r \in Req :
        /\ Answered(r) /\ req[r].chords \in NotJsonFields
        /\ resp[r].status = 200
        /\ call[r].chords = DEFAULT_CHORDS

\* C4 (as claimed): when the handler has returned or raised, none of the
\* temporary files it created is left.
C4_TempsDeleted ==
    \A r \in Req : Answered(r) => \A t \in temps : t[1] # r

\* C5: the requests being processed one after another from file_counter = 1
\* and any set of files, every write creates output/<n>.wav with n in
\* 1..MaxFile, a file that did not exist; n is greater than the n of the write
\* before, and every integer between the two (below n, for the first write)
\* is one whose file already existed.  (When the counter has passed MaxFile
\* every file exists, so no write follows the wrap to 1.)
C5_Filenames ==
    [][(\E r \in Req : pc[r] = "write" /\ pc'[r] = "increment") =>
          LET n == file_counter IN
          /\ files' = files \cup {n}
          /\ n \in FileNo
          /\ n \notin files
          /\ last' = n
          /\ n > last
          /\ \A m \in (last + 1)..(n - 1) : m \in files]_vars

\* C5's case: after output/1.wav was written, the next request has skipped
\* the existing output/2.wav and is about to write output/3.wav.
C5_Witness ==
    \E r \in Req : pc[r] = "write" /\ last = 1 /\ file_counter = 3 /\ 2 \in files

C7_ChordsNeverFail ==
    \A r \in Req :
        Answered(r)
        /\ req[r].chords \in {NoChords} \cup NotJsonFields \cup IllShapedFields
        => resp[r].detail # "chords"

\* C8 (as claimed): every chord time passed to generate_music is a number
\* between 0 and 10.0.
C8_TimesInRange ==
    \A r \in Req :
        call[r].made =>
            \A i \in DOMAIN call[r].chords :
                LET t == call[r].chords[i][2] IN
                ~t.nan /\ 0 <= t.v /\ t.v <= HORIZON

\* C8 (amended): no chord time passed to generate_music compares greater than
\* 10.0 (it may be negative, and it may be NaN).
C8_NoTimeOverHorizon ==
    \A r \in Req :
        call[r].made =>
            \A i \in DOMAIN call[r].chords :
                ~Gt(call[r].chords[i][2], Float(HORIZON))

\* C8's case: the model is called with an accepted payload whose last chord
\* is on the horizon.
C8_Witness ==
    \E r \in Req :
        /\ call[r].made /\ req[r].chords = Chords(T_Ok)
        /\ \E i \in DOMAIN call[r].chords : call[r].chords[i][2] = Float(HORIZON)

\* The first n in cyclic order from c whose file is not in F.
Dist(c, n) == (n - c + MaxFile) % MaxFile
FirstFree(c, F) ==
    CHOOSE n \in FileNo \ F : \A m \in FileNo \ F : Dist(c, n) <= Dist(c, m)

\* C9 (no file changes during a search): file_counter stays in 1..MaxFile.  A search that finds a free file has
\* made at most MaxFile - 1 advances and selects the first free n in cyclic
\* order from the counter's value at entry; a search ends whenever some file
\* is absent; when every file exists it never ends, so the request reaches
\* neither the model call nor a response.
C9_Search ==
    /\ [](/\ file_counter \in FileNo
          /\ \A r \in Req :
               /\ pc[r] = "search" /\ files # FileNo => advances[r] <= MaxFile - 1
               /\ pc[r] = "generate" =>
                    /\ advances[r] <= MaxFile - 1
                    /\ file_counter \notin files
                    /\ file_counter = FirstFree(entry[r], files))
    /\ [][\A r \in Req : pc[r] = "search" /\ files = FileNo => pc'[r] = "search"]_vars
    /\ \A r \in Req : (pc[r] = "search" /\ files # FileNo) ~> (pc[r] = "generate")

\* C9's case: a search has ended after MaxFile - 1 advances, having wrapped.
C9_Witness ==
    \E r \in Req :
        /\ pc[r] = "generate" /\ advances[r] = MaxFile - 1
        /\ file_counter < entry[r]

\* C10: a failure of the model call or of the write answers 500, leaves
\* output/ and file_counter as they were with the selected file absent; the
\* counter moves only past a file that exists (or was just written); and as
\* long as no file changes, the counter stays on the n of the failed request
\* and a later request selects that n with no advance.
C10_FailureKeepsCounter ==
    /\ [][\A r \in Req :
            pc[r] \in {"generate", "write"} /\ pc'[r] = "done" =>
                /\ resp'[r].status = 500
                /\ files' = files
                /\ file_counter' = file_counter
                /\ file_counter \notin files']_vars
    /\ [][file_counter' # file_counter => file_counter \in files']_vars
    /\ [](last_failed # 0 =>
            /\ file_counter = last_failed
            /\ last_failed \notin files
            /\ \A r \in Req : pc[r] = "generate" => advances[r] = 0)

\* C10's case: after a failed request, a later one has selected the same n.
C10_Witness ==
    \E r \in Req :
        pc[r] = "generate" /\ last_failed # 0 /\ file_counter = last_failed
====
